---- MODULE Spec2Model ----
(***************************************************************************)
(* typeorm-graphql-pagination: the cursor codec (encodeCursor,             *)
(* decodeCursor) and the paginator (paginate) of src/src/index.ts.         *)
(*                                                                         *)
(* A JavaScript string is a sequence of one-character strings.  A value    *)
(* that may be a string, a number, undefined or NaN is a record with one   *)
(* field naming its type: [str |-> s], [num |-> n], [undef |-> TRUE],      *)
(* [nan |-> TRUE].                                                         *)
(***************************************************************************)
EXTENDS Integers, Sequences, FiniteSets, TLC

VARIABLES
    rows,       \* the data source: the entities' ids, in ascending order of the order field
    builders,   \* the SelectQueryBuilder objects: their orderBy / skip / take state
    call,       \* the paginate calls: each call's arguments, locals and position
    trav,       \* a client that pages forward through the data set with endCursor
    codec       \* a client of the codec: the cursors it minted, the last decode

vars == <<rows, builders, call, trav, codec>>

-----------------------------------------------------------------------------
(* Bounds of the model *)

MaxRows == 5        \* the data sets hold 0 .. MaxRows entities
MaxFirst == 3       \* findOptions.first ranges over 1 .. MaxFirst
MaxCodecIndex == 2  \* the codec client encodes MaxCodecIndex + 1 different indexes
IndexStride == 7    \* ... which are the multiples of IndexStride (one and two digits)
MaxFields == 4      \* a payload handed to decodeCursor has 0 .. MaxFields fields
MaxMinted == 2      \* the codec client keeps at most MaxMinted minted cursors

-----------------------------------------------------------------------------
(* JavaScript values *)

Str(s) == [str |-> s]
Num(n) == [num |-> n]
Undefined == [undef |-> TRUE]
NaN == [nan |-> TRUE]

IsStr(v) == DOMAIN v = {"str"}
IsNum(v) == DOMAIN v = {"num"}

\* a === b on such values: same type and same value; NaN is equal to nothing
StrictEquals(a, b) ==
    /\ DOMAIN a = DOMAIN b
    /\ \/ IsStr(a) /\ a.str = b.str
       \/ IsNum(a) /\ a.num = b.num
       \/ DOMAIN a = {"undef"}

-----------------------------------------------------------------------------
(* Characters and their codes *)

Separator == "|"
Digits == <<"0", "1", "2", "3", "4", "5", "6", "7", "8", "9">>
Chars == <<"C", "U", "P", "a", "b", "c", "d", "e", "|", "-">> \o Digits
CharCodes == <<67, 85, 80, 97, 98, 99, 100, 101, 124, 45,
               48, 49, 50, 51, 52, 53, 54, 55, 56, 57>>

CharCode(c) == CharCodes[CHOOSE i \in DOMAIN Chars : Chars[i] = c]
CodeChar(b) == Chars[CHOOSE i \in DOMAIN CharCodes : CharCodes[i] = b]

IsDigit(c) == \E i \in DOMAIN Digits : Digits[i] = c
DigitValue(c) == (CHOOSE i \in DOMAIN Digits : Digits[i] = c) - 1

NoSeparator(s) == \A i \in DOMAIN s : s[i] # Separator

-----------------------------------------------------------------------------
(* opaqueid: encode is the base64 text of the string's bytes, decode its   *)
(* inverse.  A base64 text is a sequence of one-character strings too.     *)

Base64Chars ==
    <<"A", "B", "C", "D", "E", "F", "G", "H", "I", "J", "K", "L", "M",
      "N", "O", "P", "Q", "R", "S", "T", "U", "V", "W", "X", "Y", "Z",
      "a", "b", "c", "d", "e", "f", "g", "h", "i", "j", "k", "l", "m",
      "n", "o", "p", "q", "r", "s", "t", "u", "v", "w", "x", "y", "z",
      "0", "1", "2", "3", "4", "5", "6", "7", "8", "9", "+", "/">>
Base64Pad == "="

SextetChar(n) == Base64Chars[n + 1]
CharSextet(c) == (CHOOSE i \in DOMAIN Base64Chars : Base64Chars[i] = c) - 1

RECURSIVE Base64Encode(_)
Base64Encode(bytes) ==
    IF Len(bytes) = 0 THEN <<>>
    ELSE IF Len(bytes) = 1 THEN
        <<SextetChar(bytes[1] \div 4), SextetChar((bytes[1] % 4) * 16),
          Base64Pad, Base64Pad>>
    ELSE IF Len(bytes) = 2 THEN
        <<SextetChar(bytes[1] \div 4),
          SextetChar((bytes[1] % 4) * 16 + bytes[2] \div 16),
          SextetChar((bytes[2] % 16) * 4), Base64Pad>>
    ELSE
        <<SextetChar(bytes[1] \div 4),
          SextetChar((bytes[1] % 4) * 16 + bytes[2] \div 16),
          SextetChar((bytes[2] % 16) * 4 + bytes[3] \div 64),
          SextetChar(bytes[3] % 64)>>
        \o Base64Encode(SubSeq(bytes, 4, Len(bytes)))

RECURSIVE Base64Decode(_)
Base64Decode(text) ==
    IF Len(text) < 4 THEN <<>>
    ELSE
        LET s1 == CharSextet(text[1])
            s2 == CharSextet(text[2])
            b1 == s1 * 4 + s2 \div 16
        IN  IF text[3] = Base64Pad THEN <<b1>>
            ELSE
                LET s3 == CharSextet(text[3])
                    b2 == (s2 % 16) * 16 + s3 \div 4
                IN  IF text[4] = Base64Pad THEN <<b1, b2>>
                    ELSE <<b1, b2, (s3 % 4) * 64 + CharSextet(text[4])>>
                         \o Base64Decode(SubSeq(text, 5, Len(text)))

encode(s) == Base64Encode([i \in DOMAIN s |-> CharCode(s[i])])
decode(text) == LET bytes == Base64Decode(text)
                IN  [i \in DOMAIN bytes |-> CodeChar(bytes[i])]

-----------------------------------------------------------------------------
(* String operations of the language that the codec uses *)

\* `${n}` for an integer n
RECURSIVE NatToString(_)
NatToString(n) ==
    IF n < 10 THEN <<Digits[n + 1]>>
    ELSE NatToString(n \div 10) \o <<Digits[(n % 10) + 1]>>

NumberToString(n) == IF n < 0 THEN <<"-">> \o NatToString(0 - n) ELSE NatToString(n)

RECURSIVE DigitsToNat(_)
DigitsToNat(s) ==
    IF Len(s) = 0 THEN 0
    ELSE DigitsToNat(SubSeq(s, 1, Len(s) - 1)) * 10 + DigitValue(s[Len(s)])

AllDigits(s) == Len(s) > 0 /\ \A i \in DOMAIN s : IsDigit(s[i])

\* v * 1: ToNumber of a string over Chars, or of undefined
TimesOne(v) ==
    IF ~IsStr(v) THEN NaN
    ELSE IF Len(v.str) = 0 THEN Num(0)
    ELSE IF AllDigits(v.str) THEN Num(DigitsToNat(v.str))
    ELSE IF v.str[1] = "-" /\ AllDigits(Tail(v.str)) THEN Num(0 - DigitsToNat(Tail(v.str)))
    ELSE NaN

\* s.split('|'): the fields between the separators, at least one
RECURSIVE Split(_)
Split(s) ==
    IF NoSeparator(s) THEN <<s>>
    ELSE LET p == CHOOSE i \in DOMAIN s :
                      s[i] = Separator /\ \A j \in 1..(i - 1) : s[j] # Separator
         IN  <<SubSeq(s, 1, p - 1)>> \o Split(SubSeq(s, p + 1, Len(s)))

\* a[i] of a JavaScript array, zero-based: undefined past its end
At(a, i) == IF i + 1 \in DOMAIN a THEN Str(a[i + 1]) ELSE Undefined

-----------------------------------------------------------------------------
(* The cursor codec *)

\* A codec that joins the id before the type
encodeCursorIdFirst(id, type, index) ==
    encode(<<"C", Separator>> \o id \o <<Separator>> \o type \o <<Separator>>
           \o NumberToString(index))

encodeCursor(id, type, index) ==
    encode(<<"C", Separator>> \o type \o <<Separator>> \o id \o <<Separator>>
           \o NumberToString(index))

\* A decoder that does not look at the type
decodeCursorAnyType(cursor, type) ==
    LET split == Split(decode(cursor))
    IN  IF ~StrictEquals(At(split, 0), Str(<<"C">>))
        THEN [error |-> "InvalidCursorError"]
        ELSE [id |-> At(split, 2), type |-> At(split, 1), index |-> TimesOne(At(split, 3))]

\* The value returned, or the error thrown
decodeCursor(cursor, type) ==
    LET split == Split(decode(cursor))
    IN  IF ~StrictEquals(At(split, 0), Str(<<"C">>))
        THEN [error |-> "InvalidCursorError"]
        ELSE IF ~StrictEquals(At(split, 1), Str(type))
        THEN [error |-> "InvalidCursorTypeError",
              expectedType |-> Str(type), actualType |-> At(split, 1)]
        ELSE [id |-> At(split, 2), type |-> At(split, 1), index |-> TimesOne(At(split, 3))]

IsCursor(r) == "id" \in DOMAIN r
Threw(r, name) == "error" \in DOMAIN r /\ r.error = name

-----------------------------------------------------------------------------
(* The data source *)

Types == {<<"U">>, <<"P">>}             \* entity type tags (User, Post)
Alias == <<"u">>
OrderFields == {<<"a">>}                \* the user-facing order field
Directions == {"ASC", "DESC"}
Null == [null |-> TRUE]

\* The id of the k-th entity.  The cursor format joins its fields with the
\* separator and does not escape it, so entity ids and type tags are taken
\* to hold no separator; the codec client below also encodes an id with one
EntityId(k) == <<"e">> \o NumberToString(k)
EntityIds == {EntityId(k) : k \in 1..MaxRows}
Entity(id) == [id |-> Str(id)]

DataSets == {[k \in 1..n |-> EntityId(k)] : n \in 0..MaxRows}

Reverse(s) == [i \in DOMAIN s |-> s[Len(s) + 1 - i]]

\* A SelectQueryBuilder as created: nothing ordered, skipped or taken
NewQueryBuilder == [orderBy |-> Undefined, skip |-> Undefined, take |-> Undefined]

\* repository.createQueryBuilder and the caller's own builder: builder 0 is the
\* object the caller passes as options.queryBuilder, builder c the one the
\* repository creates for call c
CallerQueryBuilder == 0

\* query.getCount(): the count ignores the ordering, skip and take.
\* The data set does not change, so the count is the same whenever it is read
getCount(data) == Len(data)

\* The rows a select yields: ordered by its orderBy, then skip and take
Ordered(data, direction) == IF direction = "DESC" THEN Reverse(data) ELSE data

Min(a, b) == IF a < b THEN a ELSE b
Max(a, b) == IF a > b THEN a ELSE b

getMany(data, select) ==
    LET all == [i \in DOMAIN data |-> Entity(Ordered(data, select.orderBy.direction)[i])]
    IN  SubSeq(all, select.skip + 1, Min(Len(all), select.skip + select.take))

-----------------------------------------------------------------------------
(* paginate, between its suspensions *)

Truthy(v) == IsStr(v) /\ Len(v.str) > 0

orderFieldToKey(field) == field
OrderKey(alias, field) == alias \o <<".">> \o orderFieldToKey(field)

IdleCall ==
    [pc |-> "idle", findOptions |-> Undefined, options |-> Undefined,
     skip |-> 0, decodedCursor |-> Undefined, dbTake |-> 0, query |-> Undefined,
     totalCount |-> Undefined, select |-> Undefined, reads |-> <<>>,
     connection |-> Undefined, error |-> Undefined]

\* The cursor decoded from findOptions.after, if there is one
DecodedAfter(findOptions, options) ==
    IF Truthy(findOptions.after)
    THEN decodeCursor(findOptions.after.str, options.type)
    ELSE Undefined

\* A window with the lookahead row only
DbTakeOneExtra(findOptions) == findOptions.first + 1

DbTake(findOptions) ==
    IF Truthy(findOptions.after) THEN findOptions.first + 2 ELSE findOptions.first + 1

\* The builder the call queries, or Undefined when it was given none
QueryOf(c, options) ==
    IF options.queryBuilder THEN Num(CallerQueryBuilder)
    ELSE IF options.repository THEN Num(c)
    ELSE Undefined

\* Lines 230-268: from the call to the suspension at getCount
PaginateCall(c, findOptions, options) ==
    LET decoded == DecodedAfter(findOptions, options)
        query == QueryOf(c, options)
        started == [IdleCall EXCEPT !.findOptions = findOptions, !.options = options]
    IN  /\ call[c].pc \in {"idle", "returned"}
        /\ IF Truthy(findOptions.after) /\ ~IsCursor(decoded)
           THEN /\ call' = [call EXCEPT ![c] =
                        [started EXCEPT !.pc = "thrown", !.error = decoded]]
                /\ UNCHANGED builders
           ELSE IF ~IsNum(query)
           THEN /\ call' = [call EXCEPT ![c] =
                        [started EXCEPT !.pc = "thrown",
                                        !.decodedCursor = decoded,
                                        !.error = [error |-> "Error"]]]
                /\ UNCHANGED builders
           ELSE /\ call' = [call EXCEPT ![c] =
                        [started EXCEPT
                            !.pc = "getCount",
                            !.decodedCursor = decoded,
                            !.skip = IF IsCursor(decoded) THEN decoded.index.num ELSE 0,
                            !.dbTake = DbTake(findOptions),
                            !.query = query,
                            !.reads = <<"count">>]]
                /\ builders' = [builders EXCEPT ![query.num] =
                        [(IF options.queryBuilder THEN @ ELSE NewQueryBuilder) EXCEPT
                            !.orderBy = [key |-> OrderKey(options.alias,
                                                          findOptions.orderBy.field),
                                         direction |-> findOptions.orderBy.direction]]]

\* Lines 268-273: the count arrives; skip, take and getMany on the builder.
\* getMany builds its select from the builder's state as it is when called
GetCountReturns(c) ==
    LET me == call[c]
        q == me.query.num
        builder == [builders[q] EXCEPT !.skip = me.skip, !.take = me.dbTake]
    IN  /\ me.pc = "getCount"
        /\ builders' = [builders EXCEPT ![q] = builder]
        /\ call' = [call EXCEPT ![c] =
                [me EXCEPT !.pc = "getMany",
                           !.totalCount = Num(getCount(rows)),
                           !.select = builder,
                           !.reads = Append(@, "fetch")]]

\* A loop that starts at the cursor's row
FirstEdgeKeepsCursorRow(me) == 0

\* A loop that always drops the last fetched row
EdgeLimitAlwaysDropsLast(me, results) == Len(results) - 1

\* Edges whose cursors carry the position in the fetched window
EdgesWithWindowIndex(me, results) ==
    [j \in 1..Max(0, (IF Len(results) < me.dbTake THEN Len(results) ELSE Len(results) - 1)
                        - (IF Truthy(me.findOptions.after) THEN 1 ELSE 0)) |->
        LET i == (IF Truthy(me.findOptions.after) THEN 1 ELSE 0) + j - 1
        IN  [node |-> results[i + 1],
             cursor |-> encodeCursor(results[i + 1].id.str, me.options.type, i)]]

\* Lines 280-291: the edges of the fetched rows
FirstEdge(me) == IF Truthy(me.findOptions.after) THEN 1 ELSE 0
EdgeLimit(me, results) ==
    IF Len(results) < me.dbTake THEN Len(results) ELSE Len(results) - 1
Edges(me, results) ==
    [j \in 1..Max(0, EdgeLimit(me, results) - FirstEdge(me)) |->
        LET i == FirstEdge(me) + j - 1
        IN  [node |-> results[i + 1],
             cursor |-> encodeCursor(results[i + 1].id.str, me.options.type, i + me.skip)]]

\* Lines 293-298
PageInfoOf(me, results, edges) ==
    [startCursor |-> IF Len(edges) > 0 THEN Str(edges[1].cursor) ELSE Null,
     endCursor |-> IF Len(edges) > 0 THEN Str(edges[Len(edges)].cursor) ELSE Null,
     hasNextPage |-> Len(results) = me.dbTake,
     hasPreviousPage |-> me.skip # 0]

\* Lines 275-278: what the validation throws, Undefined when it passes.
\* results[0].id of an empty result is a TypeError
ValidationError(me, results) ==
    IF ~(IsCursor(me.decodedCursor) /\ me.options.validateCursor) THEN Undefined
    ELSE IF Len(results) = 0 THEN [error |-> "TypeError"]
    ELSE IF ~StrictEquals(me.decodedCursor.id, results[1].id)
    THEN [error |-> "InvalidCursorError"]
    ELSE Undefined

\* Lines 273-304: the rows arrive; validation, edges, page info, return
GetManyReturns(c) ==
    LET me == call[c]
        results == getMany(rows, me.select)
        thrown == ValidationError(me, results)
        edges == Edges(me, results)
    IN  /\ me.pc = "getMany"
        /\ call' = [call EXCEPT ![c] =
                IF thrown # Undefined
                THEN [me EXCEPT !.pc = "thrown", !.error = thrown]
                ELSE [me EXCEPT !.pc = "returned",
                                !.connection =
                                    [pageInfo |-> PageInfoOf(me, results, edges),
                                     edges |-> edges,
                                     totalCount |-> me.totalCount]]]
        /\ UNCHANGED builders

-----------------------------------------------------------------------------
(* One paginate call at a time, and a client paging forward *)

Calls == {1, 2}

\* The cursors handed to paginate: every cursor it can mint for some data
\* set, for either type, and the same for the index one past the largest.
\* All of them carry an index >= 0, so skip is a number
CursorTable ==
    {[id |-> id, type |-> t, index |-> k, cursor |-> encodeCursor(id, t, k)] :
        id \in EntityIds, t \in Types, k \in 0..(MaxRows + 1)}

\* A payload that does not start with the tag
UntaggedCursor == encode(<<"a", Separator, "U", Separator>> \o EntityId(1) \o <<Separator, "0">>)

AfterValues ==
    {Undefined, Str(<<>>), Str(UntaggedCursor)} \cup {Str(m.cursor) : m \in CursorTable}

FindOptionsSet ==
    [first : 1..MaxFirst, after : AfterValues,
     orderBy : [field : OrderFields, direction : Directions]]

OptionsSet ==
    [type : Types, alias : {Alias}, validateCursor : BOOLEAN,
     queryBuilder : BOOLEAN, repository : BOOLEAN]

NoTraversal == [calls |-> 0, nodes |-> <<>>, fromStart |-> FALSE]
NoCodec == [minted |-> {}, decoded |-> Undefined]

Init ==
    /\ rows \in DataSets
    /\ builders = [b \in {CallerQueryBuilder} \cup Calls |-> NewQueryBuilder]
    /\ call = [c \in Calls |-> IdleCall]
    /\ trav = NoTraversal
    /\ codec = NoCodec

Nodes(connection) == [j \in DOMAIN connection.edges |-> connection.edges[j].node]

\* The client calls paginate with any arguments
Paginate ==
    /\ call[1].pc = "idle"
    /\ \E findOptions \in FindOptionsSet, options \in OptionsSet :
        /\ PaginateCall(1, findOptions, options)
        /\ trav' = [calls |-> 1, nodes |-> <<>>,
                    fromStart |-> ~Truthy(findOptions.after)]
    /\ UNCHANGED <<rows, codec>>

CountArrives ==
    /\ GetCountReturns(1)
    /\ UNCHANGED <<rows, trav, codec>>

RowsArrive ==
    /\ GetManyReturns(1)
    /\ UNCHANGED <<rows, trav, codec>>

\* The page said there is a next one: the client asks for it with the same
\* arguments and after = endCursor
NextPage ==
    LET me == call[1]
    IN  /\ me.pc = "returned"
        /\ me.connection.pageInfo.hasNextPage
        /\ PaginateCall(1, [me.findOptions EXCEPT
                                !.after = me.connection.pageInfo.endCursor],
                        me.options)
        /\ trav' = [trav EXCEPT !.calls = @ + 1,
                                !.nodes = @ \o Nodes(me.connection)]
        /\ UNCHANGED <<rows, codec>>

Next == Paginate \/ CountArrives \/ RowsArrive \/ NextPage

Spec == Init /\ [][Next]_vars

-----------------------------------------------------------------------------
(* What the call in progress was asked, in terms of the data set *)

Me == call[1]
Asked == Me.pc # "idle"
Returned == Me.pc = "returned"
HasAfter == Truthy(Me.findOptions.after)

\* The whole data set in the order the call asked for
OrderedData ==
    LET ids == Ordered(rows, Me.findOptions.orderBy.direction)
    IN  [i \in DOMAIN ids |-> Entity(ids[i])]

\* The entities at the absolute offsets lo .. hi
Between(lo, hi) == SubSeq(OrderedData, lo + 1, hi + 1)

\* The table entry the call's after cursor was minted from, when it is one
AfterEntries == {m \in CursorTable : Me.findOptions.after = Str(m.cursor)}

\* The absolute offset of an entity of the data set
OffsetOf(entity) == (CHOOSE i \in DOMAIN OrderedData : OrderedData[i] = entity) - 1

\* C1: a successful call returns, in order, exactly the entities after the
\* cursor's row and before the lookahead row: offsets 0 .. min(first, n) - 1
\* without a cursor, k+1 .. min(k + first, n - 1) after a cursor of index k;
\* never more than first edges, never the cursor's row, never the lookahead row
PageIsTheRowsBetween ==
    Returned =>
        LET first == Me.findOptions.first
            n == Len(rows)
            nodes == Nodes(Me.connection)
        IN  /\ Len(nodes) <= first
            /\ ~HasAfter => nodes = Between(0, Min(first, n) - 1)
            /\ \A m \in AfterEntries :
                /\ nodes = Between(m.index + 1, Min(m.index + first, n - 1))
                /\ \A j \in DOMAIN nodes :
                    /\ OffsetOf(nodes[j]) # m.index
                    /\ OffsetOf(nodes[j]) # m.index + 1 + first
            /\ ~HasAfter => \A j \in DOMAIN nodes : OffsetOf(nodes[j]) # first

\* C1 witness: the middle page after a cursor, with a lookahead row dropped
MiddlePageReturned ==
    /\ Returned
    /\ \E m \in AfterEntries : m.index >= 1
    /\ Me.findOptions.first >= 2
    /\ Len(Me.connection.edges) = Me.findOptions.first
    /\ Me.connection.pageInfo.hasNextPage

\* C2: with validation on and a cursor given, the call fails with
\* InvalidCursorError whenever the entity at offset cursor.index is not the
\* one the cursor names, also when there is no entity at that offset
StaleCursorIsInvalidCursorError ==
    (Asked /\ Me.pc \in {"returned", "thrown"} /\ Me.options.validateCursor
        /\ (Me.options.queryBuilder \/ Me.options.repository)) =>
        \A m \in AfterEntries :
            (m.type = Me.options.type
                /\ (m.index >= Len(rows) \/ OrderedData[m.index + 1] # Entity(m.id)))
            => (Me.pc = "thrown" /\ Threw(Me.error, "InvalidCursorError"))

\* C3: hasNextPage is (fetched rows = window size), the window being
\* first + 1 from 0 without a cursor and first + 2 from cursor.index with one;
\* so it is true exactly when an entity lies after the page
HasNextPageIsLookahead ==
    Returned =>
        LET first == Me.findOptions.first
            n == Len(rows)
            hasNextPage == Me.connection.pageInfo.hasNextPage
        IN  /\ hasNextPage = (Len(getMany(rows, Me.select)) = Me.select.take)
            /\ ~HasAfter =>
                /\ Me.select.skip = 0 /\ Me.select.take = first + 1
                /\ hasNextPage = (n > first)
            /\ \A m \in AfterEntries :
                /\ Me.select.skip = m.index /\ Me.select.take = first + 2
                /\ hasNextPage = (n > m.index + 1 + first)

\* C3 witnesses: a page with a next page, after a cursor
NextPageAfterCursor ==
    /\ Returned
    /\ AfterEntries # {}
    /\ Me.connection.pageInfo.hasNextPage

\* C4: every edge's cursor decodes, against the call's type, to the id of
\* the edge's node and to the node's absolute offset in the ordered data set
EdgeCursorsAreAbsolute ==
    Returned =>
        \A j \in DOMAIN Me.connection.edges :
            LET edge == Me.connection.edges[j]
            IN  decodeCursor(edge.cursor, Me.options.type) =
                    [id |-> edge.node.id, type |-> Str(Me.options.type),
                     index |-> Num(OffsetOf(edge.node))]

\* C4 witness: an edge deep in the data set, on a page after a cursor
EdgeAtLastOffset ==
    /\ Returned
    /\ HasAfter
    /\ \E j \in DOMAIN Me.connection.edges :
        /\ j = 1
        /\ OffsetOf(Me.connection.edges[j].node) = MaxRows - 1

\* C7: a cursor minted for another type makes the call fail with
\* InvalidCursorTypeError (expected: the call's type, actual: the cursor's),
\* with no Cursor decoded and before any count or fetch
TypeMismatchBeforeAnyRead ==
    Asked =>
        \A m \in AfterEntries :
            m.type # Me.options.type =>
                /\ Me.pc = "thrown"
                /\ Me.error = [error |-> "InvalidCursorTypeError",
                               expectedType |-> Str(Me.options.type),
                               actualType |-> Str(m.type)]
                /\ Me.decodedCursor = Undefined
                /\ Me.reads = <<>>
                /\ builders[CallerQueryBuilder] = NewQueryBuilder

\* C7 witness
TypeMismatchThrown ==
    /\ Asked
    /\ \E m \in AfterEntries : m.type # Me.options.type
    /\ Me.pc = "thrown"
    /\ Me.options.queryBuilder

\* C8: hasPreviousPage is true exactly when an entity lies before the offset
\* where the page starts (0 without a cursor, cursor.index + 1 with one);
\* stated for the cursors that name the entity at their index
HasPreviousPageIsPrecedingEntity ==
    Returned =>
        /\ ~HasAfter => Me.connection.pageInfo.hasPreviousPage = FALSE
        /\ \A m \in AfterEntries :
            (m.index < Len(rows) /\ OrderedData[m.index + 1] = Entity(m.id)) =>
                Me.connection.pageInfo.hasPreviousPage =
                    (\E offset \in 0..(Len(rows) - 1) : offset < m.index + 1)

\* C10: paging forward from the start with validation on, no call fails, the
\* traversal ends after max(1, ceil(n / first)) calls, and the pages together
\* are the whole ordered data set
TraversalIsTheDataSet ==
    (Asked /\ trav.fromStart /\ Me.options.validateCursor
        /\ (Me.options.queryBuilder \/ Me.options.repository)) =>
        /\ Me.pc # "thrown"
        /\ (Returned /\ ~Me.connection.pageInfo.hasNextPage) =>
            /\ trav.nodes \o Nodes(Me.connection) = OrderedData
            /\ trav.calls =
                Max(1, (Len(rows) + Me.findOptions.first - 1) \div Me.findOptions.first)

\* C10 witness: a traversal of several pages has ended
TraversalEnded ==
    /\ Returned
    /\ trav.fromStart
    /\ Me.options.validateCursor
    /\ ~Me.connection.pageInfo.hasNextPage
    /\ trav.calls >= 3
    /\ Len(Me.connection.edges) < Me.findOptions.first

-----------------------------------------------------------------------------
(* A client of the codec alone *)

CodecIds == {<<>>, <<"a">>, <<"1">>, <<"a", Separator, "b">>}
CodecIndexes == {i * IndexStride : i \in 0..MaxCodecIndex}

\* The fields a payload is joined from
PayloadFields == {<<>>, <<"C">>, <<"U">>, <<"a">>, <<"7">>, <<"-", "1">>, <<"1", "a">>}

RECURSIVE Join(_)
Join(fields) ==
    IF Len(fields) = 0 THEN <<>>
    ELSE IF Len(fields) = 1 THEN fields[1]
    ELSE fields[1] \o <<Separator>> \o Join(Tail(fields))

Payloads == UNION {{Join(fields) : fields \in [1..n -> PayloadFields]} : n \in 1..MaxFields}

InitCodec ==
    /\ rows = <<>>
    /\ builders = [b \in {CallerQueryBuilder} \cup Calls |-> NewQueryBuilder]
    /\ call = [c \in Calls |-> IdleCall]
    /\ trav = NoTraversal
    /\ codec = NoCodec

\* encodeCursor on any triple
EncodeCursor ==
    /\ Cardinality(codec.minted) < MaxMinted
    /\ codec.decoded = Undefined
    /\ \E id \in CodecIds, type \in Types, index \in CodecIndexes :
        codec' = [codec EXCEPT !.minted = @ \cup
                    {[id |-> id, type |-> type, index |-> index,
                      cursor |-> encodeCursor(id, type, index)]}]
    /\ UNCHANGED <<rows, builders, call, trav>>

\* decodeCursor on a minted cursor, against any type
DecodeMinted ==
    /\ codec.decoded = Undefined
    /\ \E m \in codec.minted, type \in Types :
        codec' = [codec EXCEPT !.decoded =
                    [cursor |-> m.cursor, type |-> type, payload |-> decode(m.cursor),
                     result |-> decodeCursor(m.cursor, type)]]
    /\ UNCHANGED <<rows, builders, call, trav>>

\* decodeCursor on the opaque form of any payload
DecodePayload ==
    /\ codec.decoded = Undefined
    /\ codec.minted = {}
    /\ \E payload \in Payloads, type \in Types :
        codec' = [codec EXCEPT !.decoded =
                    [cursor |-> encode(payload), type |-> type, payload |-> payload,
                     result |-> decodeCursor(encode(payload), type)]]
    /\ UNCHANGED <<rows, builders, call, trav>>

NextCodec == EncodeCursor \/ DecodeMinted \/ DecodePayload

SpecCodec == InitCodec /\ [][NextCodec]_vars

Decoded == codec.decoded # Undefined

\* C5: decodeCursor(encodeCursor(id, type, index), type) is {id, type, index}
\* for ids and types without the separator, and two such triples never share
\* a cursor
CursorRoundTrip ==
    /\ \A m \in codec.minted :
        (Decoded /\ NoSeparator(m.id) /\ NoSeparator(m.type)
            /\ codec.decoded.cursor = m.cursor /\ codec.decoded.type = m.type) =>
            codec.decoded.result =
                [id |-> Str(m.id), type |-> Str(m.type), index |-> Num(m.index)]
    /\ \A m1, m2 \in codec.minted :
        (NoSeparator(m1.id) /\ NoSeparator(m1.type)
            /\ NoSeparator(m2.id) /\ NoSeparator(m2.type)
            /\ m1.cursor = m2.cursor) => m1 = m2

\* C5 witness: a two-digit index and an id came back, with a second cursor minted
RoundTripDone ==
    /\ Decoded
    /\ Cardinality(codec.minted) = 2
    /\ \E m \in codec.minted :
        /\ m.index >= 10
        /\ m.id = <<"a">>
        /\ codec.decoded.cursor = m.cursor
        /\ codec.decoded.type = m.type
        /\ IsCursor(codec.decoded.result)

\* The payload is not tag, type, id, index with a non-negative integer index
Malformed(payload) ==
    LET fields == Split(payload)
    IN  \/ fields[1] # <<"C">>
        \/ Len(fields) < 4
        \/ ~AllDigits(fields[4])

\* C6: decodeCursor fails with InvalidCursorError on a payload without the
\* tag, with fewer than four fields or with an index that is no non-negative
\* integer; a Cursor it returns has a defined id and an integer index >= 0.
\* Stated for the payloads whose type field is the type decoded against
MalformedIsInvalidCursorError ==
    (Decoded /\ At(Split(codec.decoded.payload), 1) = Str(codec.decoded.type)) =>
        /\ Malformed(codec.decoded.payload) =>
            Threw(codec.decoded.result, "InvalidCursorError")
        /\ IsCursor(codec.decoded.result) =>
            /\ IsStr(codec.decoded.result.id)
            /\ IsNum(codec.decoded.result.index)
            /\ codec.decoded.result.index.num >= 0

-----------------------------------------------------------------------------
(* Two paginate calls in flight over the same data set *)

\* The cursors of the entities of the data set in a given order
ValidCursors(type, direction) ==
    {Str(encodeCursor(Ordered(rows, direction)[k + 1], type, k)) : k \in 0..(Len(rows) - 1)}

\* Each call is handed the caller's query builder or a repository
ConcurrentOptions ==
    [type : {<<"U">>}, alias : {Alias}, validateCursor : {TRUE},
     queryBuilder : BOOLEAN, repository : {TRUE}]

ConcurrentPaginate(c) ==
    /\ call[c].pc = "idle"
    /\ \E first \in 1..MaxFirst, field \in OrderFields, direction \in Directions,
          options \in ConcurrentOptions :
        \E after \in {Undefined} \cup ValidCursors(options.type, direction) :
            PaginateCall(c, [first |-> first, after |-> after,
                             orderBy |-> [field |-> field, direction |-> direction]],
                         options)
    /\ UNCHANGED <<rows, trav, codec>>

ConcurrentCountArrives(c) ==
    /\ GetCountReturns(c)
    /\ UNCHANGED <<rows, trav, codec>>

ConcurrentRowsArrive(c) ==
    /\ GetManyReturns(c)
    /\ UNCHANGED <<rows, trav, codec>>

NextConcurrent ==
    \E c \in Calls :
        \/ ConcurrentPaginate(c)
        \/ ConcurrentCountArrives(c)
        \/ ConcurrentRowsArrive(c)

SpecConcurrent == Init /\ [][NextConcurrent]_vars

\* What a call with these arguments returns or throws when no other call runs
Alone(findOptions, options) ==
    LET decoded == DecodedAfter(findOptions, options)
        me == [IdleCall EXCEPT
                    !.findOptions = findOptions,
                    !.options = options,
                    !.decodedCursor = decoded,
                    !.skip = IF IsCursor(decoded) THEN decoded.index.num ELSE 0,
                    !.dbTake = DbTake(findOptions)]
        results == getMany(rows, [orderBy |-> findOptions.orderBy,
                                  skip |-> me.skip, take |-> me.dbTake])
        thrown == ValidationError(me, results)
        edges == Edges(me, results)
    IN  IF thrown # Undefined THEN thrown
        ELSE [pageInfo |-> PageInfoOf(me, results, edges), edges |-> edges,
              totalCount |-> Num(getCount(rows))]

\* C9: in any interleaving of two calls, each call counts before it fetches
\* and ends as it ends when run alone, also when both are handed the same
\* query builder
CallsAreIndependent ==
    \A c \in Calls :
        /\ call[c].reads \in {<<>>, <<"count">>, <<"count", "fetch">>}
        /\ call[c].pc = "returned" =>
            call[c].connection = Alone(call[c].findOptions, call[c].options)
        /\ call[c].pc = "thrown" =>
            call[c].error = Alone(call[c].findOptions, call[c].options)

====
